---- MODULE Spec2Model ----
(***************************************************************************)
(* tools/fetch_youtube.py: extraction of a YouTube video ID from a URL or  *)
(* a raw ID, and the fetch of the video's transcript through               *)
(* youtube_transcript_api.  Strings are sequences of one-character         *)
(* strings; None is the empty sequence and an optional value is a sequence *)
(* of length 0 or 1.                                                       *)
(***************************************************************************)
EXTENDS Integers, Sequences, FiniteSets, TLC

VARIABLES argv, pc, args, video_id, tried, ytt_api, transcript_list,
          transcript, fetched, exc, steps, result, stdout, stderr,
          exit_status

vars == <<argv, pc, args, video_id, tried, ytt_api, transcript_list,
          transcript, fetched, exc, steps, result, stdout, stderr,
          exit_status>>

None == <<>>

Some(x) == <<x>>

\* ---------------------------------------------------------------- bounds

\* Most whitespace characters put on either side of an input.
MaxPad == 1

\* Most tracks of one origin (manual, generated) in a listing.
MaxTracks == 2

\* Most entries of a fetched transcript.
MaxEntries == 2

\* ------------------------------------------------- extract_video_id (24-64)

\* {11} of video_id_pattern and of every URL pattern.
IdLen == 11

\* [a-zA-Z0-9_-]
IdChars ==
    {"a", "b", "c", "d", "e", "f", "g", "h", "i", "j", "k", "l", "m", "n", "o", "p",
     "q", "r", "s", "t", "u", "v", "w", "x", "y", "z", "A", "B", "C", "D", "E", "F",
     "G", "H", "I", "J", "K", "L", "M", "N", "O", "P", "Q", "R", "S", "T", "U", "V",
     "W", "X", "Y", "Z", "0", "1", "2", "3", "4", "5", "6", "7", "8", "9", "_", "-"}

\* The characters str.strip() removes (those the inputs can hold).
Whitespace == {" ", "\t", "\n", "\r"}

RECURSIVE lstrip(_)
lstrip(s) ==
    IF s # <<>> /\ Head(s) \in Whitespace THEN lstrip(Tail(s)) ELSE s

RECURSIVE rstrip(_)
rstrip(s) ==
    IF s # <<>> /\ s[Len(s)] \in Whitespace
    THEN rstrip(SubSeq(s, 1, Len(s) - 1))
    ELSE s

\* A strip that forgets the right-hand side.
strip_left_only(s) == lstrip(s)

\* url_or_id.strip()
strip(s) == rstrip(lstrip(s))

\* The literal lit stands in s at position i.
LitAt(s, i, lit) ==
    /\ i + Len(lit) - 1 <= Len(s)
    /\ \A k \in 1..Len(lit) : s[i + k - 1] = lit[k]

\* [a-zA-Z0-9_-]{11} matches s at position i.
IdAt(s, i) ==
    /\ i + IdLen - 1 <= Len(s)
    /\ \A k \in i..(i + IdLen - 1) : s[k] \in IdChars

\* re.match(r'^[a-zA-Z0-9_-]{11}$', s): $ also matches before a final newline.
video_id_pattern(s) ==
    /\ IdAt(s, 1)
    /\ \/ Len(s) = IdLen
       \/ Len(s) = IdLen + 1 /\ s[Len(s)] = "\n"

\* The list with the shorts pattern left out.
patterns_without_shorts ==
    << [lit |-> <<"y", "o", "u", "t", "u", "b", "e", ".", "c", "o", "m", "/", "w", "a", "t", "c", "h", "?">>, any |-> TRUE, key |-> <<"v", "=">>],
       [lit |-> <<"y", "o", "u", "t", "u", ".", "b", "e", "/">>, any |-> FALSE, key |-> <<>>],
       [lit |-> <<"y", "o", "u", "t", "u", "b", "e", ".", "c", "o", "m", "/", "e", "m", "b", "e", "d", "/">>, any |-> FALSE, key |-> <<>>],
       [lit |-> <<"y", "o", "u", "t", "u", "b", "e", ".", "c", "o", "m", "/", "v", "/">>, any |-> FALSE, key |-> <<>>] >>

\* The five URL patterns, in the order of the list: the literal lit, then
\* (any) the greedy .* and the literal key, then the captured group.
patterns ==
    << [lit |-> <<"y", "o", "u", "t", "u", "b", "e", ".", "c", "o", "m", "/", "w", "a", "t", "c", "h", "?">>, any |-> TRUE, key |-> <<"v", "=">>],
       [lit |-> <<"y", "o", "u", "t", "u", ".", "b", "e", "/">>, any |-> FALSE, key |-> <<>>],
       [lit |-> <<"y", "o", "u", "t", "u", "b", "e", ".", "c", "o", "m", "/", "e", "m", "b", "e", "d", "/">>, any |-> FALSE, key |-> <<>>],
       [lit |-> <<"y", "o", "u", "t", "u", "b", "e", ".", "c", "o", "m", "/", "v", "/">>, any |-> FALSE, key |-> <<>>],
       [lit |-> <<"y", "o", "u", "t", "u", "b", "e", ".", "c", "o", "m", "/", "s", "h", "o", "r", "t", "s", "/">>, any |-> FALSE, key |-> <<>>] >>

\* Where the group of pattern p can start when the match starts at i: right
\* after the literal, or after any run of non-newline characters and the key.
GroupStarts(p, s, i) ==
    IF ~LitAt(s, i, p.lit) THEN {}
    ELSE LET from == i + Len(p.lit)
         IN  IF p.any
             THEN { q + Len(p.key) : q \in
                      { q \in from..Len(s) :
                          /\ LitAt(s, q, p.key)
                          /\ IdAt(s, q + Len(p.key))
                          /\ \A k \in from..(q - 1) : s[k] # "\n" } }
             ELSE IF IdAt(s, from) THEN {from} ELSE {}

Min(S) == CHOOSE x \in S : \A y \in S : x <= y

Max(S) == CHOOSE x \in S : \A y \in S : x >= y

\* re.search(pattern, s): the leftmost start that matches, the .* greedy;
\* None, or the match's start and its group(1).
re_search(p, s) ==
    LET starts == { i \in 1..Len(s) : GroupStarts(p, s, i) # {} }
    IN  IF starts = {} THEN None
        ELSE LET i == Min(starts)
                 g == Max(GroupStarts(p, s, i))
             IN  Some([start |-> i, group |-> SubSeq(s, g, g + IdLen - 1)])

\* The loop of lines 59-62 from pattern i on, then line 64.
RECURSIVE search_patterns(_, _, _)
search_patterns(ps, s, i) ==
    IF i > Len(ps) THEN [id |-> None, tried |-> Len(ps)]
    ELSE LET m == re_search(ps[i], s)
         IN  IF m # None THEN [id |-> m[1].group, tried |-> i]
             ELSE search_patterns(ps, s, i + 1)

\* The match that starts first in the string, whatever its pattern's rank.
search_leftmost(ps, s) ==
    LET hit == { i \in 1..Len(ps) : re_search(ps[i], s) # None }
    IN  IF hit = {} THEN [id |-> None, tried |-> Len(ps)]
        ELSE LET i == CHOOSE i \in hit : \A j \in hit :
                          \/ re_search(ps[i], s)[1].start < re_search(ps[j], s)[1].start
                          \/ /\ re_search(ps[i], s)[1].start = re_search(ps[j], s)[1].start
                             /\ i <= j
             IN  [id |-> re_search(ps[i], s)[1].group, tried |-> Len(ps)]

\* for pattern in patterns: ... return match.group(1); return None
search_all(ps, s) == search_patterns(ps, s, 1)

\* The ID (or None) and the number of URL patterns searched.
extract_video_id(url_or_id) ==
    LET s == strip(url_or_id)
    IN  IF video_id_pattern(s) THEN [id |-> s, tried |-> 0]
        ELSE search_all(patterns, s)

\* ------------------------------------------------------------ the inputs

IdA == <<"d", "Q", "w", "4", "w", "9", "W", "g", "X", "c", "Q">>

IdB == <<"-", "_", "0", "a", "Z", "9", "-", "_", "0", "a", "Z">>

IdC == <<"v", "v", "v", "v", "v", "v", "v", "v", "v", "v", "v">>

Ids == {IdA, IdB, IdC}

\* Raw IDs: the above and the corners of the alphabet.
RawIds == Ids \cup {<<"0", "0", "0", "0", "0", "0", "0", "0", "0", "0", "0">>, <<"_", "_", "_", "_", "_", "_", "_", "_", "_", "_", "_">>, <<"-", "-", "-", "-", "-", "-", "-", "-", "-", "-", "-">>, <<"z", "Z", "9", "_", "-", "a", "A", "0", "z", "Z", "9">>}

Prefixes == {<<>>, <<"h", "t", "t", "p", "s", ":", "/", "/">>, <<"h", "t", "t", "p", "s", ":", "/", "/", "w", "w", "w", ".">>, <<"h", "t", "t", "p", ":", "/", "/", "m", ".">>}

\* The supported formats of the docstring (lines 28-34) and shorts (55).
ShapeHead ==
    << <<"y", "o", "u", "t", "u", "b", "e", ".", "c", "o", "m", "/", "w", "a", "t", "c", "h", "?", "v", "=">>, <<"y", "o", "u", "t", "u", ".", "b", "e", "/">>, <<"y", "o", "u", "t", "u", "b", "e", ".", "c", "o", "m", "/", "e", "m", "b", "e", "d", "/">>,
       <<"y", "o", "u", "t", "u", "b", "e", ".", "c", "o", "m", "/", "v", "/">>, <<"y", "o", "u", "t", "u", "b", "e", ".", "c", "o", "m", "/", "s", "h", "o", "r", "t", "s", "/">> >>

Shapes == 1..Len(ShapeHead)

Suffixes == {<<>>, <<"&", "t", "=", "4", "2", "s">>, <<"?", "s", "i", "=", "a", "b", "c">>}

ShapeUrl(p, i, v, x) == p \o ShapeHead[i] \o v \o x

\* A URL of shape i holding IdA, then a URL of shape j holding IdB.
Compound(i, j) ==
    <<"h", "t", "t", "p", "s", ":", "/", "/">> \o ShapeHead[i] \o IdA \o <<"&", "x", "=">> \o ShapeHead[j] \o IdB

\* The v parameter is not the first one of the query.
LateKeyUrl(v) == <<"h", "t", "t", "p", "s", ":", "/", "/", "y", "o", "u", "t", "u", "b", "e", ".", "c", "o", "m", "/", "w", "a", "t", "c", "h", "?", "l", "i", "s", "t", "=", "P", "L", "1", "&", "v", "=">> \o v

InvalidTexts ==
    { <<"n", "o", "t", " ", "a", " ", "u", "r", "l">>, <<>>, <<"d", "Q", "w", "4", "w", "9", "W", "g", "X", "c">>, <<"d", "Q", "w", "4", "w", "9", "W", "g", "X", "c", "Q", "1">>, <<"d", "Q", "w", "4", "w", "9", " ", "g", "X", "c", "Q">>,
      <<"h", "t", "t", "p", "s", ":", "/", "/", "y", "o", "u", "t", "u", "b", "e", ".", "c", "o", "m", "/", "w", "a", "t", "c", "h", "?", "v", "=", "s", "h", "o", "r", "t">>,
      <<"h", "t", "t", "p", "s", ":", "/", "/", "v", "i", "m", "e", "o", ".", "c", "o", "m", "/", "e", "m", "b", "e", "d", "/", "d", "Q", "w", "4", "w", "9", "W", "g", "X", "c", "Q">> }

PadChars == {" ", "\t", "\n"}

RECURSIVE SeqsUpTo(_, _)
SeqsUpTo(S, n) ==
    IF n = 0 THEN {<<>>}
    ELSE SeqsUpTo(S, n - 1) \cup
         { Append(q, c) : q \in { q \in SeqsUpTo(S, n - 1) : Len(q) = n - 1 },
                          c \in S }

Pads == SeqsUpTo(PadChars, MaxPad)

Padded(T) == { l \o t \o r : l \in Pads, t \in T, r \in Pads }

ExtractUrls ==
    { ShapeUrl(p, i, v, x) : p \in Prefixes, i \in Shapes, v \in Ids,
                             x \in Suffixes }
    \cup { Compound(i, j) : i \in Shapes, j \in Shapes }
    \cup { LateKeyUrl(v) : v \in Ids }
    \cup Padded(RawIds \cup InvalidTexts)

MainUrls == Padded(InvalidTexts) \cup {IdA}

\* The command lines: --help alone, --url left out, an --output that is not
\* among the choices, and --url given with --output given or left out.
CmdLines ==
    { [help |-> TRUE, url |-> None, output |-> None],
      [help |-> FALSE, url |-> None, output |-> None],
      [help |-> FALSE, url |-> Some(IdA), output |-> Some("xml")],
      [help |-> FALSE, url |-> Some(<<"h", "t", "t", "p", "s", ":", "/", "/", "y", "o", "u", "t", "u", ".", "b", "e", "/">> \o IdB),
       output |-> Some("json")] }
    \cup { [help |-> FALSE, url |-> Some(u), output |-> None] : u \in MainUrls }

\* ------------------------------------------- youtube_transcript_api, as used
\*
\* The listing, the lookups of lines 80 and 84 and the iteration of line 87
\* are the library's: TranscriptList keeps the manually created and the
\* generated tracks by language code; _find_transcript(codes, dicts) loops
\* over the codes and, for each code, over the dicts; find_transcript passes
\* [manual, generated], find_generated_transcript passes [generated], and
\* __iter__ yields the manual tracks and then the generated ones.

Langs == {"en", "en-US", "en-GB", "de"}

\* ['en', 'en-US', 'en-GB'] of lines 80 and 84.
PreferredLangs == <<"en", "en-US", "en-GB">>

Range(q) == { q[k] : k \in 1..Len(q) }

RECURSIVE DistinctSeqs(_, _)
DistinctSeqs(S, n) ==
    IF n = 0 THEN {<<>>}
    ELSE LET prev == DistinctSeqs(S, n - 1)
         IN  prev \cup
             UNION { { Append(q, c) : c \in S \ Range(q) } :
                       q \in { q \in prev : Len(q) = n - 1 } }

\* A TranscriptList: the languages of its manually created tracks and of its
\* generated tracks, each in the order the service lists them.
Listings ==
    [manual : DistinctSeqs(Langs, MaxTracks),
     generated : DistinctSeqs(Langs, MaxTracks)]

Track(code, origin) == [language_code |-> code, is_generated |-> origin = "generated"]

TracksOf(l, origin) == IF origin = "manual" THEN l.manual ELSE l.generated

HasTrack(l, origin, code) ==
    \E k \in 1..Len(TracksOf(l, origin)) : TracksOf(l, origin)[k] = code

\* The first hit looking at every origin for codes[1], then for codes[2], ...
\* None stands for NoTranscriptFound.
RECURSIVE find_from(_, _, _, _, _)
find_from(l, codes, dicts, c, d) ==
    IF c > Len(codes) THEN None
    ELSE IF d > Len(dicts) THEN find_from(l, codes, dicts, c + 1, 1)
    ELSE IF HasTrack(l, dicts[d], codes[c]) THEN Some(Track(codes[c], dicts[d]))
    ELSE find_from(l, codes, dicts, c, d + 1)

\* The first hit looking at every code in dicts[1], then in dicts[2], ...
RECURSIVE find_origin_from(_, _, _, _, _)
find_origin_from(l, codes, dicts, c, d) ==
    IF d > Len(dicts) THEN None
    ELSE IF c > Len(codes) THEN find_origin_from(l, codes, dicts, 1, d + 1)
    ELSE IF HasTrack(l, dicts[d], codes[c]) THEN Some(Track(codes[c], dicts[d]))
    ELSE find_origin_from(l, codes, dicts, c + 1, d)

\* A lookup that exhausts the manual tracks before the generated ones.
find_origin_major(l, codes, dicts) == find_origin_from(l, codes, dicts, 1, 1)

\* TranscriptList._find_transcript(language_codes, transcript_dicts)
find_language_major(l, codes, dicts) == find_from(l, codes, dicts, 1, 1)

\* transcript_list.find_transcript(codes) of line 80: manual and generated.
find_transcript(l, codes) == find_language_major(l, codes, <<"manual", "generated">>)

\* transcript_list.find_generated_transcript(codes) of line 84.
find_generated_transcript(l, codes) == find_language_major(l, codes, <<"generated">>)

\* iter(transcript_list): the manual tracks, then the generated ones.
iter(l) ==
    [k \in 1..Len(l.manual) |-> Track(l.manual[k], "manual")]
    \o [k \in 1..Len(l.generated) |-> Track(l.generated[k], "generated")]

\* str(e) of the exceptions raised.
Descs == {<<>>, <<"t", "i", "m", "e", "d", " ", "o", "u", "t">>}

\* The failures of the service: the three kinds the handlers of lines 88-105
\* name, and any other Exception.
ServiceErrors ==
    [kind : {"NoTranscriptFound", "TranscriptsDisabled", "VideoUnavailable",
             "Exception"},
     desc : Descs]

\* What the conversion of line 116 can raise: no service call is made there.
ConversionErrors == [kind : {"Exception"}, desc : Descs]

\* next() on an exhausted iterator.
StopIteration == [kind |-> "StopIteration", desc |-> <<>>]

Texts == {<<>>, <<"a", " ", "b">>}

\* The snippets of a FetchedTranscript.
Snippets ==
    { [k \in 1..Len(ts) |-> [text |-> ts[k], start |-> k - 1, duration |-> 1]] :
        ts \in SeqsUpTo(Texts, MaxEntries) }

\* fetched.to_raw_data(): one dict per snippet.
to_raw_data(f) ==
    [k \in 1..Len(f) |->
        [text |-> f[k].text, start |-> f[k].start, duration |-> f[k].duration]]

\* ------------------------------------------------ fetch_transcript (67-132)

Failure(msg, code) == [success |-> FALSE, error |-> msg, error_code |-> code]

\* The handlers of lines 88-111, tried in their order.
listing_handler(e) ==
    IF e.kind = "NoTranscriptFound"
    THEN Failure(<<"N", "o", " ", "t", "r", "a", "n", "s", "c", "r", "i", "p", "t", " ", "a", "v", "a", "i", "l", "a", "b", "l", "e", " ", "f", "o", "r", " ", "t", "h", "i", "s", " ", "v", "i", "d", "e", "o">>, "NO_TRANSCRIPT")
    ELSE IF e.kind = "TranscriptsDisabled"
    THEN Failure(<<"T", "r", "a", "n", "s", "c", "r", "i", "p", "t", "s", " ", "a", "r", "e", " ", "d", "i", "s", "a", "b", "l", "e", "d", " ", "f", "o", "r", " ", "t", "h", "i", "s", " ", "v", "i", "d", "e", "o">>, "TRANSCRIPT_DISABLED")
    ELSE IF e.kind = "VideoUnavailable"
    THEN Failure(<<"V", "i", "d", "e", "o", " ", "n", "o", "t", " ", "f", "o", "u", "n", "d", " ", "o", "r", " ", "u", "n", "a", "v", "a", "i", "l", "a", "b", "l", "e">>, "VIDEO_NOT_FOUND")
    ELSE Failure(<<"N", "e", "t", "w", "o", "r", "k", " ", "o", "r", " ", "A", "P", "I", " ", "e", "r", "r", "o", "r", ":", " ">> \o e.desc, "NETWORK_ERROR")

\* A fetch handler that tells the kinds apart as the listing handlers do.
fetch_handler_by_kind(e) ==
    IF e.kind = "Exception"
    THEN Failure(<<"F", "a", "i", "l", "e", "d", " ", "t", "o", " ", "f", "e", "t", "c", "h", " ", "t", "r", "a", "n", "s", "c", "r", "i", "p", "t", ":", " ">> \o e.desc, "NETWORK_ERROR")
    ELSE listing_handler(e)

\* The handler of lines 127-132.
fetch_handler(e) ==
    Failure(<<"F", "a", "i", "l", "e", "d", " ", "t", "o", " ", "f", "e", "t", "c", "h", " ", "t", "r", "a", "n", "s", "c", "r", "i", "p", "t", ":", " ">> \o e.desc, "NETWORK_ERROR")

\* A join that puts the separator after every text.
RECURSIVE join_trailing(_, _)
join_trailing(sep, texts) ==
    IF texts = <<>> THEN <<>>
    ELSE Head(texts) \o sep \o join_trailing(sep, Tail(texts))

\* sep.join(texts)
RECURSIVE join(_, _)
join(sep, texts) ==
    IF texts = <<>> THEN <<>>
    ELSE IF Len(texts) = 1 THEN texts[1]
    ELSE Head(texts) \o sep \o join(sep, Tail(texts))

\* The dict of lines 119-126.
success_result(vid, data, track) ==
    [success |-> TRUE,
     video_id |-> vid,
     url |-> <<"h", "t", "t", "p", "s", ":", "/", "/", "y", "o", "u", "t", "u", "b", "e", ".", "c", "o", "m", "/", "w", "a", "t", "c", "h", "?", "v", "=">> \o vid,
     transcript |-> data,
     full_text |-> join(<<" ">>, [k \in 1..Len(data) |-> data[k].text]),
     language |-> track.language_code]

Raised(e, step) == Some([kind |-> e.kind, desc |-> e.desc, step |-> step])

\* Line 73, the client built.
Construct ==
    /\ pc = "construct"
    /\ ytt_api' = TRUE
    /\ steps' = steps \cup {"construct"}
    /\ pc' = "list"
    /\ UNCHANGED <<argv, args, video_id, tried, transcript_list, transcript,
                   fetched, exc, result, stdout, stderr, exit_status>>

\* Line 73 raising: outside every try, the exception leaves fetch_transcript
\* and main; the interpreter prints the traceback and exits with status 1.
ConstructRaises ==
    /\ pc = "construct"
    /\ \E d \in Descs :
         exc' = Raised([kind |-> "Exception", desc |-> d], "construct")
    /\ steps' = steps \cup {"construct"}
    /\ stderr' = Append(stderr, "traceback")
    /\ exit_status' = Some(1)
    /\ pc' = "exited"
    /\ UNCHANGED <<argv, args, video_id, tried, ytt_api, transcript_list,
                   transcript, fetched, result, stdout>>

\* Line 76, the listing returned.
List ==
    /\ pc = "list"
    /\ \E l \in Listings : transcript_list' = Some(l)
    /\ steps' = steps \cup {"list"}
    /\ pc' = "find_transcript"
    /\ UNCHANGED <<argv, args, video_id, tried, ytt_api, transcript, fetched,
                   exc, result, stdout, stderr, exit_status>>

\* Line 76 raising, caught by lines 88-111.
ListRaises ==
    /\ pc = "list"
    /\ \E e \in ServiceErrors :
         /\ exc' = Raised(e, "list")
         /\ result' = Some(listing_handler(e))
    /\ steps' = steps \cup {"list"}
    /\ pc' = "output"
    /\ UNCHANGED <<argv, args, video_id, tried, ytt_api, transcript_list,
                   transcript, fetched, stdout, stderr, exit_status>>

\* Lines 79-81.
FindTranscript ==
    /\ pc = "find_transcript"
    /\ LET t == find_transcript(transcript_list[1], PreferredLangs)
       IN  /\ transcript' = t
           /\ pc' = IF t # None THEN "fetch" ELSE "find_generated_transcript"
    /\ steps' = steps \cup {"find_transcript"}
    /\ UNCHANGED <<argv, args, video_id, tried, ytt_api, transcript_list,
                   fetched, exc, result, stdout, stderr, exit_status>>

\* Lines 83-85.
FindGeneratedTranscript ==
    /\ pc = "find_generated_transcript"
    /\ LET t == find_generated_transcript(transcript_list[1], PreferredLangs)
       IN  /\ transcript' = t
           /\ pc' = IF t # None THEN "fetch" ELSE "first_available"
    /\ steps' = steps \cup {"find_generated_transcript"}
    /\ UNCHANGED <<argv, args, video_id, tried, ytt_api, transcript_list,
                   fetched, exc, result, stdout, stderr, exit_status>>

\* Line 87: next(iter(transcript_list)); on an empty listing StopIteration,
\* which only the handler of line 106 catches.
FirstAvailable ==
    /\ pc = "first_available"
    /\ LET it == iter(transcript_list[1])
       IN  IF it # <<>>
           THEN /\ transcript' = Some(Head(it))
                /\ pc' = "fetch"
                /\ UNCHANGED <<exc, result>>
           ELSE /\ exc' = Raised(StopIteration, "first_available")
                /\ result' = Some(listing_handler(StopIteration))
                /\ pc' = "output"
                /\ UNCHANGED transcript
    /\ steps' = steps \cup {"first_available"}
    /\ UNCHANGED <<argv, args, video_id, tried, ytt_api, transcript_list,
                   fetched, stdout, stderr, exit_status>>

\* Line 115, the snippets returned.
Fetch ==
    /\ pc = "fetch"
    /\ \E f \in Snippets : fetched' = Some(f)
    /\ steps' = steps \cup {"fetch"}
    /\ pc' = "to_raw_data"
    /\ UNCHANGED <<argv, args, video_id, tried, ytt_api, transcript_list,
                   transcript, exc, result, stdout, stderr, exit_status>>

\* Line 115 raising, caught by lines 127-132.
FetchRaises ==
    /\ pc = "fetch"
    /\ \E e \in ServiceErrors :
         /\ exc' = Raised(e, "fetch")
         /\ result' = Some(fetch_handler(e))
    /\ steps' = steps \cup {"fetch"}
    /\ pc' = "output"
    /\ UNCHANGED <<argv, args, video_id, tried, ytt_api, transcript_list,
                   transcript, fetched, stdout, stderr, exit_status>>

\* Lines 116-126.
ToRawData ==
    /\ pc = "to_raw_data"
    /\ result' = Some(success_result(video_id, to_raw_data(fetched[1]),
                                     transcript[1]))
    /\ steps' = steps \cup {"to_raw_data"}
    /\ pc' = "output"
    /\ UNCHANGED <<argv, args, video_id, tried, ytt_api, transcript_list,
                   transcript, fetched, exc, stdout, stderr, exit_status>>

\* Line 116 raising, caught by lines 127-132.
ToRawDataRaises ==
    /\ pc = "to_raw_data"
    /\ \E e \in ConversionErrors :
         /\ exc' = Raised(e, "to_raw_data")
         /\ result' = Some(fetch_handler(e))
    /\ steps' = steps \cup {"to_raw_data"}
    /\ pc' = "output"
    /\ UNCHANGED <<argv, args, video_id, tried, ytt_api, transcript_list,
                   transcript, fetched, stdout, stderr, exit_status>>

\* ------------------------------------------------------------ main (135-178)

\* json.dumps(result, indent=2), printed: one JSON document on stdout.
JsonDocument(r) == [kind |-> "json", value |-> r]

\* Lines 136-158 on --help: the help is printed and the run ends with 0.
ParseArgsHelp ==
    /\ pc = "parse_args"
    /\ argv.help
    /\ stdout' = Append(stdout, [kind |-> "help"])
    /\ exit_status' = Some(0)
    /\ pc' = "exited"
    /\ UNCHANGED <<argv, args, video_id, tried, ytt_api, transcript_list,
                   transcript, fetched, exc, steps, result, stderr>>

\* Lines 136-158 on a command line without the required --url or with an
\* --output outside choices: parser.error(), usage on stderr, status 2.
ParseArgsError ==
    /\ pc = "parse_args"
    /\ ~argv.help
    /\ argv.url = None \/ argv.output \notin {None, Some("json")}
    /\ stderr' = Append(stderr, "usage")
    /\ exit_status' = Some(2)
    /\ pc' = "exited"
    /\ UNCHANGED <<argv, args, video_id, tried, ytt_api, transcript_list,
                   transcript, fetched, exc, steps, result, stdout>>

\* Lines 136-158 on an accepted command line.
ParseArgs ==
    /\ pc = "parse_args"
    /\ ~argv.help
    /\ argv.url # None
    /\ argv.output \in {None, Some("json")}
    /\ args' = Some([url |-> argv.url[1], output |-> "json"])
    /\ pc' = "extract_video_id"
    /\ UNCHANGED <<argv, video_id, tried, ytt_api, transcript_list, transcript,
                   fetched, exc, steps, result, stdout, stderr, exit_status>>

\* Line 161.
ExtractVideoId ==
    /\ pc = "extract_video_id"
    /\ LET r == extract_video_id(args[1].url)
       IN  /\ video_id' = r.id
           /\ tried' = r.tried
           /\ pc' = IF r.id = <<>> THEN "invalid_url" ELSE "construct"
    /\ UNCHANGED <<argv, args, ytt_api, transcript_list, transcript, fetched,
                   exc, steps, result, stdout, stderr, exit_status>>

\* An invalid URL reported without ending the run.
InvalidUrlNoExit ==
    /\ pc = "invalid_url"
    /\ result' = Some(Failure(<<"C", "o", "u", "l", "d", " ", "n", "o", "t", " ", "e", "x", "t", "r", "a", "c", "t", " ", "v", "i", "d", "e", "o", " ", "I", "D", " ", "f", "r", "o", "m", ":", " ">> \o args[1].url,
                              "INVALID_URL"))
    /\ stdout' = Append(stdout, JsonDocument(result'[1]))
    /\ pc' = "construct"
    /\ UNCHANGED <<argv, args, video_id, tried, ytt_api, transcript_list,
                   transcript, fetched, exc, steps, stderr, exit_status>>

\* Lines 162-169.
InvalidUrl ==
    /\ pc = "invalid_url"
    /\ result' = Some(Failure(<<"C", "o", "u", "l", "d", " ", "n", "o", "t", " ", "e", "x", "t", "r", "a", "c", "t", " ", "v", "i", "d", "e", "o", " ", "I", "D", " ", "f", "r", "o", "m", ":", " ">> \o args[1].url,
                              "INVALID_URL"))
    /\ stdout' = Append(stdout, JsonDocument(result'[1]))
    /\ exit_status' = Some(1)
    /\ pc' = "exited"
    /\ UNCHANGED <<argv, args, video_id, tried, ytt_api, transcript_list,
                   transcript, fetched, exc, steps, stderr>>

\* Line 175.
Output ==
    /\ pc = "output"
    /\ stdout' = Append(stdout, JsonDocument(result[1]))
    /\ pc' = "exit"
    /\ UNCHANGED <<argv, args, video_id, tried, ytt_api, transcript_list,
                   transcript, fetched, exc, steps, result, stderr, exit_status>>

\* Line 178.
Exit ==
    /\ pc = "exit"
    /\ exit_status' = Some(IF result[1].success THEN 0 ELSE 1)
    /\ pc' = "exited"
    /\ UNCHANGED <<argv, args, video_id, tried, ytt_api, transcript_list,
                   transcript, fetched, exc, steps, result, stdout, stderr>>

Blank ==
    /\ args = None
    /\ video_id = None
    /\ tried = 0
    /\ ytt_api = FALSE
    /\ transcript_list = None
    /\ transcript = None
    /\ fetched = None
    /\ exc = None
    /\ steps = {}
    /\ result = None
    /\ stdout = <<>>
    /\ stderr = <<>>
    /\ exit_status = None

\* A run of the tool on any of the command lines.
Init ==
    /\ argv \in CmdLines
    /\ pc = "parse_args"
    /\ Blank

Next ==
    \/ ParseArgsHelp
    \/ ParseArgsError
    \/ ParseArgs
    \/ ExtractVideoId
    \/ InvalidUrl
    \/ Construct
    \/ ConstructRaises
    \/ List
    \/ ListRaises
    \/ FindTranscript
    \/ FindGeneratedTranscript
    \/ FirstAvailable
    \/ Fetch
    \/ FetchRaises
    \/ ToRawData
    \/ ToRawDataRaises
    \/ Output
    \/ Exit

Spec == Init /\ [][Next]_vars

\* extract_video_id alone, on every input: the run starts with the command
\* line parsed.
InitExtract ==
    /\ \E u \in ExtractUrls :
         /\ argv = [help |-> FALSE, url |-> Some(u), output |-> None]
         /\ args = Some([url |-> u, output |-> "json"])
    /\ pc = "extract_video_id"
    /\ video_id = None
    /\ tried = 0
    /\ ytt_api = FALSE
    /\ transcript_list = None
    /\ transcript = None
    /\ fetched = None
    /\ exc = None
    /\ steps = {}
    /\ result = None
    /\ stdout = <<>>
    /\ stderr = <<>>
    /\ exit_status = None

NextExtract == ExtractVideoId

SpecExtract == InitExtract /\ [][NextExtract]_vars

\* ------------------------------------------------------------ the claims

Returned == pc \in {"output", "exit", "exited"} /\ result # None

Selected == pc \in {"fetch", "to_raw_data"} \/ (Returned /\ transcript # None)

ListingCodes == {"NO_TRANSCRIPT", "TRANSCRIPT_DISABLED", "VIDEO_NOT_FOUND"}

FetchCodes == ListingCodes \cup {"NETWORK_ERROR"}

Contains(s, sub) == \E i \in 1..(Len(s) + 1) : LitAt(s, i, sub)

\* C1: when the listing is returned and holds no track, fetch_transcript
\* returns a failure with error_code NO_TRANSCRIPT and the step that takes the
\* first available track is not reached.
C1_EmptyListingIsNoTranscript ==
    (Returned /\ transcript_list # None /\ iter(transcript_list[1]) = <<>>)
    => /\ ~result[1].success
       /\ result[1].error_code = "NO_TRANSCRIPT"
       /\ "first_available" \notin steps

\* C2: a run that has ended has printed exactly one JSON Result on stdout and
\* nothing else, and its exit status is 0 when that Result is a success and 1
\* when it is not.
C2_OneResultAndItsStatus ==
    pc = "exited"
    => /\ Len(stdout) = 1
       /\ stdout[1].kind = "json"
       /\ exit_status = Some(IF stdout[1].value.success THEN 0 ELSE 1)

\* C3: no exception leaves fetch_transcript, whichever of its steps fails, and
\* every failure it returns carries one of the four fetch error codes.
C3_NeverRaisesPastBoundary ==
    /\ "traceback" \notin Range(stderr)
    /\ (Returned /\ steps # {} /\ ~result[1].success)
       => result[1].error_code \in FetchCodes

HasPreferred(l, origin) ==
    \E k \in 1..Len(PreferredLangs) : HasTrack(l, origin, PreferredLangs[k])

Extracted == pc \notin {"parse_args", "extract_video_id"} /\ args # None

\* C5: from a URL of any of the five supported shapes, with or without scheme
\* and www. and with or without further parameters after the ID,
\* extract_video_id returns the 11-character ID that follows the marker.
C5_ShapeUrlGivesItsId ==
    Extracted
    => \A p \in Prefixes, i \in Shapes, v \in Ids, x \in Suffixes :
         args[1].url = ShapeUrl(p, i, v, x) => video_id = v

C5_Witness ==
    /\ Extracted
    /\ args[1].url = ShapeUrl(<<"h", "t", "t", "p", "s", ":", "/", "/", "w", "w", "w", ".">>, 5, IdB, <<"&", "t", "=", "4", "2", "s">>)
    /\ video_id = IdB

\* C6: from a string of exactly 11 characters of the ID alphabet, with or
\* without whitespace around it, extract_video_id returns these 11 characters
\* and searches no URL pattern.
C6_RawIdUnchanged ==
    Extracted
    => \A v \in RawIds, l \in Pads, r \in Pads :
         args[1].url = l \o v \o r => video_id = v /\ tried = 0

C6_Witness ==
    /\ Extracted
    /\ args[1].url = <<" ">> \o IdA \o <<"\n">>
    /\ video_id = IdA
    /\ tried = 0

InvalidUrlResult(r) == ~r.success /\ r.error_code = "INVALID_URL"

\* C7: when extract_video_id finds no ID, no step of fetch_transcript is ever
\* taken, and the run ends having printed one failure with error_code
\* INVALID_URL, with exit status 1.
C7_InvalidUrlNeverFetches ==
    (Extracted /\ video_id = None)
    => /\ steps = {}
       /\ ~ytt_api
       /\ pc \in {"invalid_url", "exited"}
       /\ pc = "invalid_url" => stdout = <<>>
       /\ pc = "exited"
          => /\ Len(stdout) = 1
             /\ stdout[1].kind = "json"
             /\ InvalidUrlResult(stdout[1].value)
             /\ exit_status = Some(1)

C7_Witness ==
    /\ pc = "exited"
    /\ args = Some([url |-> <<"n", "o", "t", " ", "a", " ", "u", "r", "l">>, output |-> "json"])
    /\ Len(stdout) = 1
    /\ InvalidUrlResult(stdout[1].value)
    /\ exit_status = Some(1)
    /\ steps = {}

\* Where the text of entry i starts in the joined text, less one.
RECURSIVE Offset(_, _)
Offset(d, i) == IF i <= 1 THEN 0 ELSE Offset(d, i - 1) + Len(d[i - 1].text) + 1

\* C8: in a success Result, full_text holds the text of every entry of the
\* transcript of that Result, in order, one space between two consecutive
\* texts and nothing else; it is empty for an empty transcript.
C8_FullTextIsSpaceJoined ==
    (result # None /\ result[1].success)
    => LET d == result[1].transcript
           ft == result[1].full_text
           n == Len(d)
       IN  /\ Len(ft) = IF n = 0 THEN 0 ELSE Offset(d, n) + Len(d[n].text)
           /\ \A i \in 1..n :
                /\ SubSeq(ft, Offset(d, i) + 1, Offset(d, i) + Len(d[i].text))
                     = d[i].text
                /\ i < n => ft[Offset(d, i) + Len(d[i].text) + 1] = " "
           /\ n = Len(fetched[1])
           /\ \A i \in 1..n : d[i].text = fetched[1][i].text

C8_Witness ==
    /\ result # None
    /\ result[1].success
    /\ Len(result[1].transcript) = 2
    /\ result[1].full_text = <<"a", " ", "b", " ", "a", " ", "b">>

\* C9: for an input that is not a raw ID, the ID returned is the group of the
\* first pattern of the list that matches anywhere in the input, also when a
\* later pattern matches further left, and None is returned only when no
\* pattern matches.
C9_PatternOrderDecides ==
    (Extracted /\ ~video_id_pattern(strip(args[1].url)))
    => LET s == strip(args[1].url)
           hit == { i \in 1..Len(patterns) : re_search(patterns[i], s) # None }
       IN  /\ hit = {} <=> video_id = None
           /\ hit # {} => video_id = re_search(patterns[Min(hit)], s)[1].group
           /\ \A i \in Shapes, j \in Shapes :
                args[1].url = Compound(i, j)
                => video_id = IF i < j THEN IdA
                              ELSE IF j < i THEN IdB
                              ELSE IF i = 1 THEN IdB ELSE IdA

\* youtu.be/IdA stands left of youtube.com/watch?v=IdB: IdB is returned.
C9_Witness ==
    /\ Extracted
    /\ args[1].url = Compound(2, 1)
    /\ re_search(patterns[2], args[1].url)[1].start
         < re_search(patterns[1], args[1].url)[1].start
    /\ video_id = IdB

\* C10: a failure of the fetch stage (lines 115-116), of any kind, gives a
\* failure with error_code NETWORK_ERROR whose message holds the description
\* of the exception; NO_TRANSCRIPT, TRANSCRIPT_DISABLED and VIDEO_NOT_FOUND
\* come only from a failure of the listing and selection stage, no track
\* having been selected.
C10_FetchFailureIsNetworkError ==
    /\ (exc # None /\ exc[1].step \in {"fetch", "to_raw_data"})
       => /\ transcript # None
          /\ result # None
          /\ ~result[1].success
          /\ result[1].error_code = "NETWORK_ERROR"
          /\ Contains(result[1].error, <<"F", "a", "i", "l", "e", "d", " ", "t", "o", " ", "f", "e", "t", "c", "h", " ", "t", "r", "a", "n", "s", "c", "r", "i", "p", "t", ":", " ">> \o exc[1].desc)
    /\ (result # None /\ ~result[1].success
          /\ result[1].error_code \in ListingCodes)
       => /\ exc # None
          /\ exc[1].step \in {"list", "first_available"}
          /\ transcript = None
          /\ "fetch" \notin steps

C10_Witness ==
    /\ Returned
    /\ exc = Some([kind |-> "TranscriptsDisabled", desc |-> <<"t", "i", "m", "e", "d", " ", "o", "u", "t">>,
                   step |-> "fetch"])
    /\ transcript # None
    /\ result[1].error_code = "NETWORK_ERROR"

====
